---- MODULE Spec2Model ----
(***************************************************************************)
(* Model of the CSV import pipeline of database-optimizer                  *)
(* (importer/csv_importer.go): the Row Codec (parseRow), the Batch Writer  *)
(* (executeBatch), the sequential importer (ImportFromFile) and the        *)
(* concurrent importer (ImportFromFileGoRoutine).                          *)
(*                                                                         *)
(* Strings are sequences of one-character strings, so that the string      *)
(* conversions of parseRow (TrimSpace, ToLower, Atoi, ParseFloat) are      *)
(* computed and not assumed.                                               *)
(***************************************************************************)
EXTENDS Integers, Sequences, FiniteSets, TLC

(***************************************************************************)
(* Bounds of the model.                                                    *)
(***************************************************************************)
MaxSeqRecs == 3   \* data records in the input of ImportFromFile
MaxGoRecs  == 2   \* data records in the input of ImportFromFileGoRoutine
MaxBatch   == 2   \* imp.batchSize ranges over 1..MaxBatch
MaxWorkers == 2   \* numWorkers ranges over 1..MaxWorkers
MaxClock   == 3   \* instants of the Profiler's clock: 0..MaxClock
MaxCalls   == 4   \* calls made on the Profiler
MaxLongRecs == 7  \* data records of the long input

(***************************************************************************)
(* Program constants.                                                      *)
(***************************************************************************)
NumFields     == 28   \* fields of a record, columns of fire_calls
insertWorkers == 2    \* writer goroutines

(***************************************************************************)
(* Generic helpers.                                                        *)
(***************************************************************************)
RECURSIVE SumSeq(_)
SumSeq(s) == IF s = <<>> THEN 0 ELSE Head(s) + SumSeq(Tail(s))

RECURSIVE Concat(_)
Concat(ss) == IF ss = <<>> THEN <<>> ELSE Head(ss) \o Concat(Tail(ss))

Min(a, b) == IF a <= b THEN a ELSE b

(***************************************************************************)
(* Strings of the Go standard library, over the characters used here.      *)
(***************************************************************************)
DigitChars == <<"0", "1", "2", "3", "4", "5", "6", "7", "8", "9">>

IsDigit(c) == \E d \in 1..10 : DigitChars[d] = c

DigitVal(c) == (CHOOSE d \in 1..10 : DigitChars[d] = c) - 1

IsSpace(c) == c \in {" ", "\t", "\n", "\r"}

LowerChar(c) ==
    CASE c = "T" -> "t"
      [] c = "R" -> "r"
      [] c = "U" -> "u"
      [] c = "E" -> "e"
      [] c = "F" -> "f"
      [] c = "A" -> "a"
      [] c = "L" -> "l"
      [] c = "S" -> "s"
      [] OTHER   -> c

\* strings.ToLower
ToLower(s) == [k \in 1..Len(s) |-> LowerChar(s[k])]

RECURSIVE TrimLeft(_)
TrimLeft(s) == IF s # <<>> /\ IsSpace(Head(s)) THEN TrimLeft(Tail(s)) ELSE s

RECURSIVE TrimRight(_)
TrimRight(s) ==
    IF s # <<>> /\ IsSpace(s[Len(s)]) THEN TrimRight(SubSeq(s, 1, Len(s) - 1)) ELSE s

\* strings.TrimSpace
TrimSpace(s) == TrimRight(TrimLeft(s))

AllDigits(s) == s # <<>> /\ \A k \in 1..Len(s) : IsDigit(s[k])

RECURSIVE DigitsVal(_)
DigitsVal(s) ==
    IF s = <<>> THEN 0 ELSE DigitsVal(SubSeq(s, 1, Len(s) - 1)) * 10 + DigitVal(s[Len(s)])

HasSign(s) == s # <<>> /\ Head(s) \in {"+", "-"}

Unsigned(s) == IF HasSign(s) THEN Tail(s) ELSE s

\* strconv.Atoi: optional sign, then one or more decimal digits
AtoiOK(s) == AllDigits(Unsigned(s))

AtoiVal(s) ==
    IF HasSign(s) /\ Head(s) = "-" THEN 0 - DigitsVal(Unsigned(s)) ELSE DigitsVal(Unsigned(s))

DotAt(s) == {k \in 1..Len(s) : s[k] = "."}

IntPart(s) == IF DotAt(s) = {} THEN s ELSE SubSeq(s, 1, (CHOOSE k \in DotAt(s) : TRUE) - 1)

FracPart(s) ==
    IF DotAt(s) = {} THEN <<>> ELSE SubSeq(s, (CHOOSE k \in DotAt(s) : TRUE) + 1, Len(s))

\* strconv.ParseFloat(s, 64) on decimal literals without exponent:
\* optional sign, digits with at most one point, at least one digit
ParseFloatOK(s) ==
    LET u == Unsigned(s) IN
      /\ Cardinality(DotAt(u)) <= 1
      /\ IntPart(u) \o FracPart(u) # <<>>
      /\ \A k \in 1..Len(u) : IsDigit(u[k]) \/ u[k] = "."

RECURSIVE NormFloat(_, _)
NormFloat(m, e) == IF e > 0 /\ m % 10 = 0 THEN NormFloat(m \div 10, e - 1) ELSE <<m, e>>

\* the float64 read by ParseFloat, as <<sign, mantissa, decimal exponent>>
ParseFloatVal(s) ==
    LET u  == Unsigned(s)
        me == NormFloat(DigitsVal(IntPart(u) \o FracPart(u)), Len(FracPart(u)))
    IN  <<IF HasSign(s) /\ Head(s) = "-" /\ me[1] # 0 THEN 0 - 1 ELSE 1, me[1], me[2]>>

(***************************************************************************)
(* Row Codec: parseRow and its helper closures.  A value of interface{}    *)
(* is a record tagged with its dynamic type; nil has no payload.           *)
(***************************************************************************)
Nil == [t |-> "nil"]

parseInt(s) ==
    IF s = <<>> THEN Nil
    ELSE IF ~AtoiOK(s) THEN Nil
    ELSE [t |-> "int", v |-> AtoiVal(s)]

parseFloat(s) ==
    IF s = <<>> THEN Nil
    ELSE IF ~ParseFloatOK(s) THEN Nil
    ELSE [t |-> "float64", v |-> ParseFloatVal(s)]

parseBool(s) ==
    LET l == ToLower(TrimSpace(s)) IN
    [t |-> "bool", v |-> (l = <<"t", "r", "u", "e">> \/ l = <<"t">> \/ l = <<"1">>)]

parseString(s) == IF s = <<>> THEN Nil ELSE [t |-> "string", v |-> s]

\* 0-based positions of the typed columns in the row literal of parseRow
IntColumns   == {2, 14, 15, 16, 19, 21}
BoolColumn   == 17
FloatColumn  == 27
RowIdColumn  == 26

parseField(j, s) ==
    IF j \in IntColumns THEN parseInt(s)
    ELSE IF j = BoolColumn THEN parseBool(s)
    ELSE IF j = FloatColumn THEN parseFloat(s)
    ELSE parseString(s)

\* parseRow returns (row, error): err is TRUE for a non-nil error, and then
\* row is nil (the empty tuple)
parseRowBadLen(record) ==
    IF Len(record) < NumFields
    THEN [row |-> <<>>, err |-> TRUE]
    ELSE [row |-> [k \in 1..Len(record) |-> parseField(k - 1, record[k])], err |-> FALSE]

parseRow(record) ==
    IF Len(record) # NumFields
    THEN [row |-> <<>>, err |-> TRUE]
    ELSE [row |-> [k \in 1..NumFields |-> parseField(k - 1, record[k])], err |-> FALSE]

(***************************************************************************)
(* Batch Writer: the statement and the parameter list that executeBatch    *)
(* hands to pool.Exec.  The loops over i and j are unrolled recursively,   *)
(* 0-based as in the source; placeholders[i+1][j+1] is the number n of the *)
(* "$n" written for row i, field j, and values is the flat argument list.  *)
(***************************************************************************)
RECURSIVE RowValues(_, _)
RowValues(row, j) ==
    IF j >= NumFields THEN <<>> ELSE <<row[j + 1]>> \o RowValues(row, j + 1)

RECURSIVE RowPlaceholdersFromZero(_, _)
RowPlaceholdersFromZero(i, j) ==
    IF j >= NumFields THEN <<>> ELSE <<i * NumFields + j>> \o RowPlaceholdersFromZero(i, j + 1)

RECURSIVE RowPlaceholders(_, _)
RowPlaceholders(i, j) ==
    IF j >= NumFields THEN <<>> ELSE <<i * NumFields + j + 1>> \o RowPlaceholders(i, j + 1)

RECURSIVE BatchValues(_, _)
BatchValues(batch, i) ==
    IF i >= Len(batch) THEN <<>>
    ELSE RowValues(batch[i + 1], 0) \o BatchValues(batch, i + 1)

RECURSIVE BatchPlaceholders(_, _)
BatchPlaceholders(batch, i) ==
    IF i >= Len(batch) THEN <<>>
    ELSE <<RowPlaceholders(i, 0)>> \o BatchPlaceholders(batch, i + 1)

\* what executeBatch passes to pool.Exec for a non-empty batch
executeBatch(batch) ==
    [placeholders |-> BatchPlaceholders(batch, 0), values |-> BatchValues(batch, 0)]

\* the store: the row_id column of each row of an executed INSERT
StoredKeys(values) ==
    [i \in 1..(Len(values) \div NumFields) |-> values[(i - 1) * NumFields + RowIdColumn + 1]]

(***************************************************************************)
(* The input file.  A file is the outcome of os.Open, the number of fields *)
(* of its header line (0: reading the header fails), the number of fields  *)
(* of each data record, and what follows the last record: end-of-input or  *)
(* a read failure.  csv.NewReader leaves FieldsPerRecord at 0, so Read     *)
(* takes the field count of the header as the required count and returns   *)
(* ErrFieldCount for a record of another length.                           *)
(***************************************************************************)
FieldCounts == {NumFields, NumFields - 1}

RECURSIVE SeqsUpTo(_, _)
SeqsUpTo(S, n) ==
    IF n = 0 THEN {<<>>}
    ELSE LET R == SeqsUpTo(S, n - 1) IN
         R \cup {Append(r, x) : r \in {q \in R : Len(q) = n - 1}, x \in S}

Files(maxRecs) ==
    {[open |-> TRUE, hdr |-> h, lens |-> l, term |-> t] :
        h \in FieldCounts, l \in SeqsUpTo(FieldCounts, maxRecs), t \in {"eof", "err"}}
    \cup {[open |-> TRUE, hdr |-> 0, lens |-> <<>>, term |-> "eof"],
          [open |-> FALSE, hdr |-> NumFields, lens |-> <<>>, term |-> "eof"]}

\* the k-th data record (1-based) with n fields: row_id is the digit of k,
\* incident_number a number, als_unit alternates, delay a decimal
FieldOf(k, j) ==
    IF j = RowIdColumn THEN <<DigitChars[k + 1]>>
    ELSE IF j = 2 THEN <<"4", DigitChars[k + 1]>>
    ELSE IF j = BoolColumn THEN (IF k % 2 = 1 THEN <<"T">> ELSE <<>>)
    ELSE IF j = FloatColumn THEN <<"1", ".", "5">>
    ELSE <<>>

MkRecord(k, n) == [j \in 1..n |-> FieldOf(k, j - 1)]

VARIABLES
    mode,          \* "seq": ImportFromFile, "go": ImportFromFileGoRoutine, "codec": parseRow alone
    batchSize,     \* imp.batchSize
    numWorkers,    \* the numWorkers argument
    file,          \* the input file
    pos,           \* data records consumed from the csv reader
    fileClosed,    \* the deferred file.Close() has run
    pc,            \* position of the calling goroutine
    batch,         \* ImportFromFile: the accumulating batch
    totalRecords,  \* the totalRecords local of either importer
    ret,           \* the (int, error) returned to the caller
    recordChan, recordClosed,
    batchChan, batchClosed,
    errorChan,
    rpc, rrec,     \* reader goroutine: position, record in hand
    ppc, pbatch,   \* parse workers: position, private batch
    cpc,           \* goroutine closing batchChan
    wpc, wbatch, wtmp,   \* insert workers: position, batch in hand, register of +=
    recordMutex,   \* 0: unlocked, else the insert worker holding it
    dpc,           \* goroutine sending on doneChan
    execLog,       \* the store: every pool.Exec call in order: the row_id of each
                   \* row, the number of parameters, and the outcome
    readFailed,    \* reader.Read has returned an error other than io.EOF
    atReturn,      \* when the importer returned: pool.Exec calls made, readFailed
    crecord, cresult,   \* the Row Codec called on its own: argument and result
    operations,    \* Profiler.operations: name -> recorded duration
    startTimes,    \* Profiler.startTimes: name -> start instant of the in-flight timing
    now,           \* the clock read by time.Now and time.Since
    handles,       \* the names for which Start has returned an *Operation
    started,       \* name -> instant of the most recent Start call
    pshared,       \* parse workers: the batch variable refers to the backing array
                   \* of a batch that the worker has sent
    pcall          \* the last Profiler call: its number, operation, name, whether
                   \* the name had a start in flight when it was made, result

cfgVars   == <<mode, batchSize, numWorkers, file>>
callVars  == <<pc, totalRecords, ret, fileClosed, atReturn>>
readVars  == <<pos, readFailed>>
chanVars  == <<recordChan, recordClosed, batchChan, batchClosed, errorChan>>
readerVars == <<rpc, rrec>>
parserVars == <<ppc, pbatch>>
writerVars == <<wpc, wbatch, wtmp, recordMutex>>
storeVars == <<execLog>>
codecVars == <<crecord, cresult>>
profVars  == <<operations, startTimes, now, handles, started, pcall>>
bufVars   == <<pshared>>
goVars    == <<chanVars, readerVars, parserVars, cpc, writerVars, dpc>>

vars == <<cfgVars, callVars, readVars, batch, goVars, storeVars, codecVars, profVars, bufVars>>

WritersPerParser == 1..numWorkers

Writers == 1..insertWorkers
Parsers == 1..numWorkers

\* Go maps keyed by operation name
EmptyMap == [k \in {} |-> 0]
MapPut(m, k, v) == [x \in DOMAIN m \cup {k} |-> IF x = k THEN v ELSE m[x]]
MapDelete(m, k) == [x \in DOMAIN m \ {k} |-> m[x]]

\* profiler.New(): both maps empty
New ==
    /\ operations = EmptyMap
    /\ startTimes = EmptyMap

\* what has happened so far, recorded in atReturn when the importer returns
Snapshot == [execs |-> Len(execLog), readFailed |-> readFailed]

InitCommon ==
    /\ pos = 0
    /\ fileClosed = FALSE
    /\ batch = <<>>
    /\ totalRecords = 0
    /\ ret = [count |-> 0, err |-> "nil"]
    /\ recordChan = <<>> /\ recordClosed = FALSE
    /\ batchChan = <<>> /\ batchClosed = FALSE
    /\ errorChan = <<>>
    /\ rpc = "idle" /\ rrec = <<>>
    /\ ppc = [p \in Parsers |-> "idle"]
    /\ pbatch = [p \in Parsers |-> <<>>]
    /\ cpc = "idle"
    /\ wpc = [w \in Writers |-> "idle"]
    /\ wbatch = [w \in Writers |-> <<>>]
    /\ wtmp = [w \in Writers |-> 0]
    /\ recordMutex = 0
    /\ dpc = "idle"
    /\ execLog = <<>>
    /\ readFailed = FALSE
    /\ atReturn = [execs |-> 0, readFailed |-> FALSE]
    /\ pshared = [p \in Parsers |-> FALSE]
    /\ New
    /\ now = 0
    /\ handles = {}
    /\ started = EmptyMap
    /\ pcall = [n |-> 0, op |-> "New", name |-> "", inflight |-> FALSE, ret |-> 0]

Init ==
    /\ mode \in {"seq", "go"}
    /\ batchSize \in 1..MaxBatch
    /\ numWorkers \in (IF mode = "seq" THEN {1} ELSE 1..MaxWorkers)
    /\ file \in Files(IF mode = "seq" THEN MaxSeqRecs ELSE MaxGoRecs)
    /\ pc = "open"
    /\ crecord = <<>> /\ cresult = [row |-> <<>>, err |-> FALSE]
    /\ InitCommon

(***************************************************************************)
(* reader.Read() on the data records: the possible results of the next     *)
(* call when k records have been consumed.                                 *)
(***************************************************************************)
ReadEOF == [kind |-> "eof", rec |-> <<>>]
ReadErr == [kind |-> "err", rec |-> <<>>]

ReadFromFile(k) ==
    IF k < Len(file.lens)
    THEN IF file.lens[k + 1] = file.hdr
         THEN [kind |-> "rec", rec |-> MkRecord(k + 1, file.lens[k + 1])]
         ELSE ReadErr
    ELSE IF file.term = "eof" THEN ReadEOF ELSE ReadErr

\* once file.Close() has run, Read serves what the csv reader has buffered
\* or fails on the closed descriptor
ReadResults(k) == {ReadFromFile(k)} \cup (IF fileClosed THEN {ReadErr} ELSE {})

\* pool.Exec is called once with the statement of executeBatch; ok is the
\* store's answer
PoolExec(b, ok) ==
    LET call == executeBatch(b) IN
    execLog' = Append(execLog, [keys |-> StoredKeys(call.values),
                                n    |-> Len(call.values),
                                ok   |-> ok])

\* imp.executeBatch(ctx, batch) returning nil (ok) or an error: an empty
\* batch returns nil without a call
ExecuteBatch(b, ok) ==
    IF Len(b) = 0
    THEN ok /\ UNCHANGED storeVars
    ELSE PoolExec(b, ok)

\* return from an importer whose file is open: the deferred Close runs
Return(count, err) ==
    /\ pc' = "returned"
    /\ ret' = [count |-> count, err |-> err]
    /\ fileClosed' = TRUE

(***************************************************************************)
(* ImportFromFile                                                          *)
(***************************************************************************)
SeqOpen ==
    /\ mode = "seq" /\ pc = "open"
    /\ IF file.open
       THEN pc' = "header" /\ UNCHANGED <<ret, fileClosed>>
       ELSE pc' = "returned" /\ ret' = [count |-> 0, err |-> "open"] /\ UNCHANGED fileClosed
    /\ UNCHANGED <<cfgVars, totalRecords, readVars, batch, goVars, storeVars, codecVars, profVars, bufVars>>
    /\ atReturn' = (IF pc' = "returned" THEN Snapshot' ELSE atReturn)

SeqReadHeader ==
    /\ mode = "seq" /\ pc = "header"
    /\ IF file.hdr = 0
       THEN Return(0, "header")
       ELSE pc' = "read" /\ UNCHANGED <<ret, fileClosed>>
    /\ UNCHANGED <<cfgVars, totalRecords, readVars, batch, goVars, storeVars, codecVars, profVars, bufVars>>
    /\ atReturn' = (IF pc' = "returned" THEN Snapshot' ELSE atReturn)

\* SeqRead that tests err != nil before err == io.EOF
SeqReadEOFIsError ==
    /\ mode = "seq" /\ pc = "read"
    /\ \E o \in ReadResults(pos) :
         CASE o.kind \in {"eof", "err"} ->
                /\ Return(totalRecords, "read")
                /\ readFailed' = (o.kind = "err")
                /\ UNCHANGED <<pos, batch>>
           [] o.kind = "rec" ->
                LET pr == parseRow(o.rec) IN
                /\ pos' = pos + 1
                /\ UNCHANGED <<ret, fileClosed, readFailed>>
                /\ IF pr.err
                   THEN pc' = "read" /\ UNCHANGED batch
                   ELSE /\ batch' = Append(batch, pr.row)
                        /\ pc' = IF Len(batch') >= batchSize THEN "flush" ELSE "read"
    /\ UNCHANGED <<cfgVars, totalRecords, goVars, storeVars, codecVars, profVars, bufVars>>
    /\ atReturn' = (IF pc' = "returned" THEN Snapshot' ELSE atReturn)

SeqReadLateFlush ==
    /\ mode = "seq" /\ pc = "read"
    /\ \E o \in ReadResults(pos) :
         CASE o.kind = "eof" ->
                /\ pc' = "final"
                /\ UNCHANGED <<ret, fileClosed, readVars, batch>>
           [] o.kind = "err" ->
                /\ Return(totalRecords, "read")
                /\ readFailed' = TRUE
                /\ UNCHANGED <<pos, batch>>
           [] o.kind = "rec" ->
                LET pr == parseRow(o.rec) IN
                /\ pos' = pos + 1
                /\ UNCHANGED <<ret, fileClosed, readFailed>>
                /\ IF pr.err
                   THEN pc' = "read" /\ UNCHANGED batch
                   ELSE /\ batch' = Append(batch, pr.row)
                        /\ pc' = IF Len(batch') > batchSize THEN "flush" ELSE "read"
    /\ UNCHANGED <<cfgVars, totalRecords, goVars, storeVars, codecVars, profVars, bufVars>>
    /\ atReturn' = (IF pc' = "returned" THEN Snapshot' ELSE atReturn)

SeqRead ==
    /\ mode = "seq" /\ pc = "read"
    /\ \E o \in ReadResults(pos) :
         CASE o.kind = "eof" ->
                /\ pc' = "final"
                /\ UNCHANGED <<ret, fileClosed, readVars, batch>>
           [] o.kind = "err" ->
                /\ Return(totalRecords, "read")
                /\ readFailed' = TRUE
                /\ UNCHANGED <<pos, batch>>
           [] o.kind = "rec" ->
                LET pr == parseRow(o.rec) IN
                /\ pos' = pos + 1
                /\ UNCHANGED <<ret, fileClosed, readFailed>>
                /\ IF pr.err
                   THEN pc' = "read" /\ UNCHANGED batch
                   ELSE /\ batch' = Append(batch, pr.row)
                        /\ pc' = IF Len(batch') >= batchSize THEN "flush" ELSE "read"
    /\ UNCHANGED <<cfgVars, totalRecords, goVars, storeVars, codecVars, profVars, bufVars>>
    /\ atReturn' = (IF pc' = "returned" THEN Snapshot' ELSE atReturn)

\* SeqFlush without the reset of the batch
SeqFlushNoReset ==
    /\ mode = "seq" /\ pc = "flush"
    /\ \E ok \in BOOLEAN :
         /\ ExecuteBatch(batch, ok)
         /\ IF ok
            THEN /\ totalRecords' = totalRecords + Len(batch)
                 /\ pc' = "read"
                 /\ UNCHANGED <<ret, fileClosed, batch>>
            ELSE /\ Return(totalRecords, "write")
                 /\ UNCHANGED <<totalRecords, batch>>
    /\ UNCHANGED <<cfgVars, readVars, goVars, codecVars, profVars, bufVars>>
    /\ atReturn' = (IF pc' = "returned" THEN Snapshot' ELSE atReturn)

\* SeqFlush that counts the batch before it is written
SeqFlushCountFirst ==
    /\ mode = "seq" /\ pc = "flush"
    /\ \E ok \in BOOLEAN :
         /\ ExecuteBatch(batch, ok)
         /\ totalRecords' = totalRecords + Len(batch)
         /\ IF ok
            THEN /\ batch' = <<>>
                 /\ pc' = "read"
                 /\ UNCHANGED <<ret, fileClosed>>
            ELSE /\ Return(totalRecords', "write")
                 /\ UNCHANGED batch
    /\ UNCHANGED <<cfgVars, readVars, goVars, codecVars, profVars, bufVars>>
    /\ atReturn' = (IF pc' = "returned" THEN Snapshot' ELSE atReturn)

SeqFlush ==
    /\ mode = "seq" /\ pc = "flush"
    /\ \E ok \in BOOLEAN :
         /\ ExecuteBatch(batch, ok)
         /\ IF ok
            THEN /\ totalRecords' = totalRecords + Len(batch)
                 /\ batch' = <<>>
                 /\ pc' = "read"
                 /\ UNCHANGED <<ret, fileClosed>>
            ELSE /\ Return(totalRecords, "write")
                 /\ UNCHANGED <<totalRecords, batch>>
    /\ UNCHANGED <<cfgVars, readVars, goVars, codecVars, profVars, bufVars>>
    /\ atReturn' = (IF pc' = "returned" THEN Snapshot' ELSE atReturn)

SeqFinal ==
    /\ mode = "seq" /\ pc = "final"
    /\ IF Len(batch) > 0
       THEN \E ok \in BOOLEAN :
              /\ ExecuteBatch(batch, ok)
              /\ IF ok
                 THEN /\ totalRecords' = totalRecords + Len(batch)
                      /\ Return(totalRecords', "nil")
                 ELSE /\ Return(totalRecords, "write")
                      /\ UNCHANGED totalRecords
       ELSE /\ Return(totalRecords, "nil")
            /\ UNCHANGED <<totalRecords, storeVars>>
    /\ UNCHANGED <<cfgVars, readVars, batch, goVars, codecVars, profVars, bufVars>>
    /\ atReturn' = (IF pc' = "returned" THEN Snapshot' ELSE atReturn)

ImportFromFile == SeqOpen \/ SeqReadHeader \/ SeqRead \/ SeqFlush \/ SeqFinal

(***************************************************************************)
(* ImportFromFileGoRoutine: the calling goroutine                          *)
(***************************************************************************)
GoOpen ==
    /\ mode = "go" /\ pc = "open"
    /\ IF file.open
       THEN pc' = "header" /\ UNCHANGED <<ret, fileClosed>>
       ELSE pc' = "returned" /\ ret' = [count |-> 0, err |-> "open"] /\ UNCHANGED fileClosed
    /\ UNCHANGED <<cfgVars, totalRecords, atReturn, readVars, batch, goVars, storeVars, codecVars, profVars, bufVars>>

GoReadHeader ==
    /\ mode = "go" /\ pc = "header"
    /\ IF file.hdr = 0
       THEN Return(0, "header")
       ELSE pc' = "spawn" /\ UNCHANGED <<ret, fileClosed>>
    /\ UNCHANGED <<cfgVars, totalRecords, atReturn, readVars, batch, goVars, storeVars, codecVars, profVars, bufVars>>

\* the channels are made and the go statements run: every goroutine exists
\* and is at its first statement
GoSpawn ==
    /\ mode = "go" /\ pc = "spawn"
    /\ pc' = "select"
    /\ rpc' = "read"
    /\ ppc' = [p \in Parsers |-> "recv"]
    /\ cpc' = "wait"
    /\ wpc' = [w \in Writers |-> "recv"]
    /\ dpc' = "wait"
    /\ pshared' = [p \in Parsers |-> FALSE]
    /\ UNCHANGED <<cfgVars, totalRecords, ret, fileClosed, atReturn, readVars, batch,
                   chanVars, rrec, pbatch, wbatch, wtmp, recordMutex, storeVars, codecVars, profVars>>

SelectErrorStopsWriters ==
    /\ mode = "go" /\ pc = "select"
    /\ errorChan # <<>>
    /\ errorChan' = Tail(errorChan)
    /\ Return(totalRecords, Head(errorChan))
    /\ atReturn' = Snapshot
    /\ wpc' = [w \in Writers |-> "done"]
    /\ UNCHANGED <<cfgVars, totalRecords, readVars, batch, recordChan, recordClosed,
                   batchChan, batchClosed, readerVars, parserVars, cpc, wbatch, wtmp,
                   recordMutex, dpc, storeVars, codecVars, profVars, bufVars>>

\* select, case err := <-errorChan
SelectError ==
    /\ mode = "go" /\ pc = "select"
    /\ errorChan # <<>>
    /\ errorChan' = Tail(errorChan)
    /\ Return(totalRecords, Head(errorChan))
    /\ atReturn' = Snapshot
    /\ UNCHANGED <<cfgVars, totalRecords, readVars, batch, recordChan, recordClosed,
                   batchChan, batchClosed, readerVars, parserVars, cpc, writerVars, dpc,
                   storeVars, codecVars, profVars, bufVars>>

\* select, case <-doneChan: doneChan is unbuffered, the receive meets the
\* send of the waiting goroutine
SelectDone ==
    /\ mode = "go" /\ pc = "select"
    /\ dpc = "send"
    /\ dpc' = "done"
    /\ Return(totalRecords, "nil")
    /\ atReturn' = Snapshot
    /\ UNCHANGED <<cfgVars, totalRecords, readVars, batch, chanVars, readerVars,
                   parserVars, cpc, writerVars, storeVars, codecVars, profVars, bufVars>>

(***************************************************************************)
(* Stage 1: the CSV reader goroutine                                       *)
(***************************************************************************)
\* ReaderRead without the deferred close(recordChan) at the end of input
ReaderReadNoClose ==
    /\ rpc = "read"
    /\ \E o \in ReadResults(pos) :
         CASE o.kind = "eof" ->
                /\ rpc' = "done"
                /\ UNCHANGED <<rrec, readVars, recordClosed>>
           [] o.kind = "err" ->
                /\ rpc' = "senderr"
                /\ readFailed' = TRUE
                /\ UNCHANGED <<rrec, pos, recordClosed>>
           [] o.kind = "rec" ->
                /\ rpc' = "send"
                /\ rrec' = o.rec
                /\ pos' = pos + 1
                /\ UNCHANGED <<readFailed, recordClosed>>
    /\ UNCHANGED <<cfgVars, callVars, batch, recordChan, batchChan, batchClosed, errorChan,
                   parserVars, cpc, writerVars, dpc, storeVars, codecVars, profVars, bufVars>>

ReaderRead ==
    /\ rpc = "read"
    /\ \E o \in ReadResults(pos) :
         CASE o.kind = "eof" ->
                \* break, then the deferred close(recordChan)
                /\ rpc' = "done"
                /\ recordClosed' = TRUE
                /\ UNCHANGED <<rrec, readVars>>
           [] o.kind = "err" ->
                /\ rpc' = "senderr"
                /\ readFailed' = TRUE
                /\ UNCHANGED <<rrec, pos, recordClosed>>
           [] o.kind = "rec" ->
                /\ rpc' = "send"
                /\ rrec' = o.rec
                /\ pos' = pos + 1
                /\ UNCHANGED <<readFailed, recordClosed>>
    /\ UNCHANGED <<cfgVars, callVars, batch, recordChan, batchChan, batchClosed, errorChan,
                   parserVars, cpc, writerVars, dpc, storeVars, codecVars, profVars, bufVars>>

ReaderSendUnbounded ==
    /\ rpc = "send"
    /\ recordChan' = Append(recordChan, rrec)
    /\ rrec' = <<>>
    /\ rpc' = "read"
    /\ UNCHANGED <<cfgVars, callVars, readVars, batch, recordClosed, batchChan, batchClosed,
                   errorChan, parserVars, cpc, writerVars, dpc, storeVars, codecVars, profVars, bufVars>>

\* recordChan <- record
ReaderSend ==
    /\ rpc = "send"
    /\ Len(recordChan) < batchSize * 2
    /\ recordChan' = Append(recordChan, rrec)
    /\ rrec' = <<>>
    /\ rpc' = "read"
    /\ UNCHANGED <<cfgVars, callVars, readVars, batch, recordClosed, batchChan, batchClosed,
                   errorChan, parserVars, cpc, writerVars, dpc, storeVars, codecVars, profVars, bufVars>>

\* errorChan <- err; return, then the deferred close(recordChan)
ReaderSendErr ==
    /\ rpc = "senderr"
    /\ Len(errorChan) < numWorkers
    /\ errorChan' = Append(errorChan, "read")
    /\ recordClosed' = TRUE
    /\ rpc' = "done"
    /\ UNCHANGED <<cfgVars, callVars, readVars, batch, recordChan, batchChan, batchClosed,
                   rrec, parserVars, cpc, writerVars, dpc, storeVars, codecVars, profVars, bufVars>>

(***************************************************************************)
(* Stage 2: the parse workers                                              *)
(***************************************************************************)
ParserRecvNoFlush(p) ==
    /\ ppc[p] = "recv"
    /\ IF recordChan # <<>>
       THEN LET pr == parseRow(Head(recordChan)) IN
            /\ recordChan' = Tail(recordChan)
            /\ IF pr.err
               THEN UNCHANGED parserVars
               ELSE /\ pbatch' = [pbatch EXCEPT ![p] = Append(@, pr.row)]
                    /\ ppc' = [ppc EXCEPT ![p] =
                                 IF Len(pbatch'[p]) >= batchSize THEN "send" ELSE "recv"]
       ELSE /\ recordClosed
            /\ ppc' = [ppc EXCEPT ![p] = "done"]
            /\ UNCHANGED <<recordChan, pbatch>>
    /\ UNCHANGED <<cfgVars, callVars, readVars, batch, recordClosed, batchChan, batchClosed,
                   errorChan, readerVars, cpc, writerVars, dpc, storeVars, codecVars, profVars, bufVars>>

ParserRecvSendEach(p) ==
    /\ ppc[p] = "recv"
    /\ IF recordChan # <<>>
       THEN LET pr == parseRow(Head(recordChan)) IN
            /\ recordChan' = Tail(recordChan)
            /\ IF pr.err
               THEN UNCHANGED parserVars
               ELSE /\ pbatch' = [pbatch EXCEPT ![p] = Append(@, pr.row)]
                    /\ ppc' = [ppc EXCEPT ![p] = "send"]
       ELSE /\ recordClosed
            /\ ppc' = [ppc EXCEPT ![p] = IF Len(pbatch[p]) > 0 THEN "flush" ELSE "done"]
            /\ UNCHANGED <<recordChan, pbatch>>
    /\ UNCHANGED <<cfgVars, callVars, readVars, batch, recordClosed, batchChan, batchClosed,
                   errorChan, readerVars, cpc, writerVars, dpc, storeVars, codecVars, profVars, bufVars>>

\* one iteration of for record := range recordChan, up to the send
ParserRecv(p) ==
    /\ ppc[p] = "recv"
    /\ IF recordChan # <<>>
       THEN LET pr == parseRow(Head(recordChan)) IN
            /\ recordChan' = Tail(recordChan)
            /\ IF pr.err
               THEN UNCHANGED parserVars
               ELSE /\ pbatch' = [pbatch EXCEPT ![p] = Append(@, pr.row)]
                    /\ ppc' = [ppc EXCEPT ![p] =
                                 IF Len(pbatch'[p]) >= batchSize THEN "send" ELSE "recv"]
       ELSE /\ recordClosed
            /\ ppc' = [ppc EXCEPT ![p] = IF Len(pbatch[p]) > 0 THEN "flush" ELSE "done"]
            /\ UNCHANGED <<recordChan, pbatch>>
    /\ UNCHANGED <<cfgVars, callVars, readVars, batch, recordClosed, batchChan, batchClosed,
                   errorChan, readerVars, cpc, writerVars, dpc, storeVars, codecVars, profVars, bufVars>>

\* ParserSend that empties the batch in place (batch = batch[:0]) instead
\* of making a new one
ParserSendReuse(p) ==
    /\ ppc[p] = "send"
    /\ Len(batchChan) < numWorkers
    /\ batchChan' = Append(batchChan, pbatch[p])
    /\ pbatch' = [pbatch EXCEPT ![p] = <<>>]
    /\ ppc' = [ppc EXCEPT ![p] = "recv"]
    /\ pshared' = [pshared EXCEPT ![p] = TRUE]
    /\ UNCHANGED <<cfgVars, callVars, readVars, batch, recordChan, recordClosed, batchClosed,
                   errorChan, readerVars, cpc, writerVars, dpc, storeVars, codecVars, profVars>>

\* batchChan <- batch of a full batch, and the fresh batch of
\* make([][]interface{}, 0, imp.batchSize)
ParserSend(p) ==
    /\ ppc[p] = "send"
    /\ Len(batchChan) < numWorkers
    /\ batchChan' = Append(batchChan, pbatch[p])
    /\ pbatch' = [pbatch EXCEPT ![p] = <<>>]
    /\ ppc' = [ppc EXCEPT ![p] = "recv"]
    /\ pshared' = [pshared EXCEPT ![p] = FALSE]
    /\ UNCHANGED <<cfgVars, callVars, readVars, batch, recordChan, recordClosed, batchClosed,
                   errorChan, readerVars, cpc, writerVars, dpc, storeVars, codecVars, profVars>>

\* ParserFlush that drops the remaining records
ParserFlushDrop(p) ==
    /\ ppc[p] = "flush"
    /\ pbatch' = [pbatch EXCEPT ![p] = <<>>]
    /\ ppc' = [ppc EXCEPT ![p] = "done"]
    /\ pshared' = [pshared EXCEPT ![p] = FALSE]
    /\ UNCHANGED <<cfgVars, callVars, readVars, batch, chanVars, readerVars, cpc, writerVars,
                   dpc, storeVars, codecVars, profVars>>

\* batchChan <- batch of the remaining records, then parseWg.Done()
ParserFlush(p) ==
    /\ ppc[p] = "flush"
    /\ Len(batchChan) < numWorkers
    /\ batchChan' = Append(batchChan, pbatch[p])
    /\ pbatch' = [pbatch EXCEPT ![p] = <<>>]
    /\ ppc' = [ppc EXCEPT ![p] = "done"]
    /\ pshared' = [pshared EXCEPT ![p] = FALSE]
    /\ UNCHANGED <<cfgVars, callVars, readVars, batch, recordChan, recordClosed, batchClosed,
                   errorChan, readerVars, cpc, writerVars, dpc, storeVars, codecVars, profVars>>

CloseBatchChanNoWait ==
    /\ cpc = "wait"
    /\ batchClosed' = TRUE
    /\ cpc' = "done"
    /\ UNCHANGED <<cfgVars, callVars, readVars, batch, recordChan, recordClosed, batchChan,
                   errorChan, readerVars, parserVars, writerVars, dpc, storeVars, codecVars, profVars, bufVars>>

\* parseWg.Wait(); close(batchChan)
CloseBatchChan ==
    /\ cpc = "wait"
    /\ \A p \in Parsers : ppc[p] = "done"
    /\ batchClosed' = TRUE
    /\ cpc' = "done"
    /\ UNCHANGED <<cfgVars, callVars, readVars, batch, recordChan, recordClosed, batchChan,
                   errorChan, readerVars, parserVars, writerVars, dpc, storeVars, codecVars, profVars, bufVars>>

(***************************************************************************)
(* Stage 3: the insert workers                                             *)
(***************************************************************************)
\* WriterRecv that leaves the batch it takes in the batch queue
WriterRecvKeep(w) ==
    /\ wpc[w] = "recv"
    /\ IF batchChan # <<>>
       THEN /\ wbatch' = [wbatch EXCEPT ![w] = Head(batchChan)]
            /\ wpc' = [wpc EXCEPT ![w] = "exec"]
            /\ UNCHANGED batchChan
       ELSE /\ batchClosed
            /\ wpc' = [wpc EXCEPT ![w] = "done"]
            /\ UNCHANGED <<wbatch, batchChan>>
    /\ UNCHANGED <<cfgVars, callVars, readVars, batch, recordChan, recordClosed, batchClosed,
                   errorChan, readerVars, parserVars, cpc, wtmp, recordMutex, dpc,
                   storeVars, codecVars, profVars, bufVars>>

\* for batch := range batchChan
WriterRecv(w) ==
    /\ wpc[w] = "recv"
    /\ IF batchChan # <<>>
       THEN /\ wbatch' = [wbatch EXCEPT ![w] = Head(batchChan)]
            /\ batchChan' = Tail(batchChan)
            /\ wpc' = [wpc EXCEPT ![w] = "exec"]
       ELSE /\ batchClosed
            /\ wpc' = [wpc EXCEPT ![w] = "done"]
            /\ UNCHANGED <<wbatch, batchChan>>
    /\ UNCHANGED <<cfgVars, callVars, readVars, batch, recordChan, recordClosed, batchClosed,
                   errorChan, readerVars, parserVars, cpc, wtmp, recordMutex, dpc,
                   storeVars, codecVars, profVars, bufVars>>

\* WriterExec that tallies a batch whatever executeBatch returned
WriterExecTallyAll(w) ==
    /\ wpc[w] = "exec"
    /\ \E ok \in BOOLEAN :
         /\ ExecuteBatch(wbatch[w], ok)
         /\ wpc' = [wpc EXCEPT ![w] = "lock"]
    /\ UNCHANGED <<cfgVars, callVars, readVars, batch, chanVars, readerVars, parserVars, cpc,
                   wbatch, wtmp, recordMutex, dpc, codecVars, profVars, bufVars>>

\* imp.executeBatch(ctx, batch)
WriterExec(w) ==
    /\ wpc[w] = "exec"
    /\ \E ok \in BOOLEAN :
         /\ ExecuteBatch(wbatch[w], ok)
         /\ wpc' = [wpc EXCEPT ![w] = IF ok THEN "lock" ELSE "senderr"]
    /\ UNCHANGED <<cfgVars, callVars, readVars, batch, chanVars, readerVars, parserVars, cpc,
                   wbatch, wtmp, recordMutex, dpc, codecVars, profVars, bufVars>>

WriterSendErrContinue(w) ==
    /\ wpc[w] = "senderr"
    /\ Len(errorChan) < numWorkers
    /\ errorChan' = Append(errorChan, "write")
    /\ wpc' = [wpc EXCEPT ![w] = "recv"]
    /\ wbatch' = [wbatch EXCEPT ![w] = <<>>]
    /\ UNCHANGED <<cfgVars, callVars, readVars, batch, recordChan, recordClosed, batchChan,
                   batchClosed, readerVars, parserVars, cpc, wtmp, recordMutex, dpc,
                   storeVars, codecVars, profVars, bufVars>>

\* errorChan <- err; return, then insertWg.Done()
WriterSendErr(w) ==
    /\ wpc[w] = "senderr"
    /\ Len(errorChan) < numWorkers
    /\ errorChan' = Append(errorChan, "write")
    /\ wpc' = [wpc EXCEPT ![w] = "done"]
    /\ wbatch' = [wbatch EXCEPT ![w] = <<>>]
    /\ UNCHANGED <<cfgVars, callVars, readVars, batch, recordChan, recordClosed, batchChan,
                   batchClosed, readerVars, parserVars, cpc, wtmp, recordMutex, dpc,
                   storeVars, codecVars, profVars, bufVars>>

WriterLockNoMutex(w) ==
    /\ wpc[w] = "lock"
    /\ recordMutex' = w
    /\ wtmp' = [wtmp EXCEPT ![w] = totalRecords]
    /\ wpc' = [wpc EXCEPT ![w] = "store"]
    /\ UNCHANGED <<cfgVars, callVars, readVars, batch, chanVars, readerVars, parserVars, cpc,
                   wbatch, dpc, storeVars, codecVars, profVars, bufVars>>

\* recordMutex.Lock(), and the load of totalRecords += len(batch)
WriterLock(w) ==
    /\ wpc[w] = "lock"
    /\ recordMutex = 0
    /\ recordMutex' = w
    /\ wtmp' = [wtmp EXCEPT ![w] = totalRecords]
    /\ wpc' = [wpc EXCEPT ![w] = "store"]
    /\ UNCHANGED <<cfgVars, callVars, readVars, batch, chanVars, readerVars, parserVars, cpc,
                   wbatch, dpc, storeVars, codecVars, profVars, bufVars>>

\* the store of totalRecords += len(batch), recordMutex.Unlock(), and the
\* next iteration
WriterStore(w) ==
    /\ wpc[w] = "store"
    /\ totalRecords' = wtmp[w] + Len(wbatch[w])
    /\ wtmp' = [wtmp EXCEPT ![w] = 0]
    /\ recordMutex' = 0
    /\ wbatch' = [wbatch EXCEPT ![w] = <<>>]
    /\ wpc' = [wpc EXCEPT ![w] = "recv"]
    /\ UNCHANGED <<cfgVars, pc, ret, fileClosed, atReturn, readVars, batch, chanVars,
                   readerVars, parserVars, cpc, dpc, storeVars, codecVars, profVars, bufVars>>

\* insertWg.Wait(), after which the goroutine offers doneChan <- true
WaitInsert ==
    /\ dpc = "wait"
    /\ \A w \in Writers : wpc[w] = "done"
    /\ dpc' = "send"
    /\ UNCHANGED <<cfgVars, callVars, readVars, batch, chanVars, readerVars, parserVars, cpc,
                   writerVars, storeVars, codecVars, profVars, bufVars>>

ImportFromFileGoRoutine ==
    \/ GoOpen \/ GoReadHeader \/ GoSpawn \/ SelectError \/ SelectDone
    \/ ReaderRead \/ ReaderSend \/ ReaderSendErr
    \/ \E p \in Parsers : ParserRecv(p) \/ ParserSend(p) \/ ParserFlush(p)
    \/ CloseBatchChan
    \/ \E w \in Writers : \/ WriterRecv(w) \/ WriterExec(w) \/ WriterSendErr(w)
                          \/ WriterLock(w) \/ WriterStore(w)
    \/ WaitInsert

Next == ImportFromFile \/ ImportFromFileGoRoutine

Spec == Init /\ [][Next]_vars

(***************************************************************************)
(* The Row Codec on its own: parseRow applied to one record.               *)
(***************************************************************************)
MaxExtra == 1   \* record lengths range over NumFields-MaxExtra..NumFields+MaxExtra, and 0

TestStrings ==
    { <<>>, <<"t">>, <<"T">>, <<" ", "t", "r", "u", "e", " ">>, <<"T", "R", "U", "E">>,
      <<"1">>, <<"0">>, <<"f", "a", "l", "s", "e">>, <<"1", "2">>, <<"-", "3">>,
      <<"1", ".", "5">>, <<"a", "b", "c">> }

CodecRecords ==
    {[k \in 1..n |-> IF k - 1 = BoolColumn THEN b ELSE f] :
        n \in {0} \cup ((NumFields - MaxExtra)..(NumFields + MaxExtra)),
        b \in TestStrings, f \in TestStrings}

InitCodec ==
    /\ mode = "codec"
    /\ batchSize = 1
    /\ numWorkers = 1
    /\ file = [open |-> TRUE, hdr |-> NumFields, lens |-> <<>>, term |-> "eof"]
    /\ pc = "call"
    /\ crecord \in CodecRecords
    /\ cresult = [row |-> <<>>, err |-> FALSE]
    /\ InitCommon

CodecCall ==
    /\ mode = "codec" /\ pc = "call"
    /\ cresult' = parseRow(crecord)
    /\ pc' = "returned"
    /\ UNCHANGED <<cfgVars, totalRecords, ret, fileClosed, atReturn, readVars, batch, goVars,
                   storeVars, crecord, profVars, bufVars>>

NextCodec == CodecCall

SpecCodec == InitCodec /\ [][NextCodec]_vars

(***************************************************************************)
(* The Profiler on its own: calls of Start, End and Reset on one profiler, *)
(* in any order, while the clock advances.                                 *)
(***************************************************************************)
OperationNames == {"data_import", "query"}

InitProfiler ==
    /\ mode = "profiler"
    /\ batchSize = 1
    /\ numWorkers = 1
    /\ file = [open |-> TRUE, hdr |-> NumFields, lens |-> <<>>, term |-> "eof"]
    /\ pc = "call"
    /\ crecord = <<>> /\ cresult = [row |-> <<>>, err |-> FALSE]
    /\ InitCommon

\* the clock moves on between two calls
Tick ==
    /\ mode = "profiler"
    /\ now < MaxClock
    /\ now' = now + 1
    /\ UNCHANGED <<operations, startTimes, handles, started, pcall>>

\* time.Since(t)
Since(t) == now - t

\* the call that a step makes, numbered
Called(op, name, result) ==
    /\ pcall.n < MaxCalls
    /\ pcall' = [n |-> pcall.n + 1, op |-> op, name |-> name,
                 inflight |-> name \in DOMAIN startTimes, ret |-> result]

StartKeepFirst(operationName) ==
    /\ mode = "profiler"
    /\ startTimes' = (IF operationName \in DOMAIN startTimes THEN startTimes
                      ELSE MapPut(startTimes, operationName, now))
    /\ handles' = handles \cup {operationName}
    /\ started' = MapPut(started, operationName, now)
    /\ Called("Start", operationName, 0)
    /\ UNCHANGED <<operations, now>>

\* p.Start(operationName)
Start(operationName) ==
    /\ mode = "profiler"
    /\ startTimes' = MapPut(startTimes, operationName, now)
    /\ handles' = handles \cup {operationName}
    /\ started' = MapPut(started, operationName, now)
    /\ Called("Start", operationName, 0)
    /\ UNCHANGED <<operations, now>>

EndKeepMarker(name) ==
    /\ mode = "profiler"
    /\ name \in handles
    /\ IF name \notin DOMAIN startTimes
       THEN /\ Called("End", name, 0)
            /\ UNCHANGED <<operations, startTimes>>
       ELSE LET duration == Since(startTimes[name]) IN
            /\ operations' = MapPut(operations, name, duration)
            /\ Called("End", name, duration)
            /\ UNCHANGED startTimes
    /\ UNCHANGED <<now, handles, started>>

\* op.End() on a handle that Start returned for name
End(name) ==
    /\ mode = "profiler"
    /\ name \in handles
    /\ IF name \notin DOMAIN startTimes
       THEN /\ Called("End", name, 0)
            /\ UNCHANGED <<operations, startTimes>>
       ELSE LET duration == Since(startTimes[name]) IN
            /\ operations' = MapPut(operations, name, duration)
            /\ startTimes' = MapDelete(startTimes, name)
            /\ Called("End", name, duration)
    /\ UNCHANGED <<now, handles, started>>

\* p.GetDuration(operationName): the zero value for a missing key
GetDuration(operationName) ==
    IF operationName \in DOMAIN operations THEN operations[operationName] ELSE 0

\* p.Reset()
Reset ==
    /\ mode = "profiler"
    /\ operations' = EmptyMap
    /\ startTimes' = EmptyMap
    /\ Called("Reset", "", 0)
    /\ UNCHANGED <<now, handles, started>>

NextProfiler ==
    /\ \/ Tick
       \/ \E name \in OperationNames : Start(name)
       \/ \E name \in OperationNames : End(name)
       \/ Reset
    /\ UNCHANGED <<cfgVars, callVars, readVars, batch, goVars, storeVars, codecVars, bufVars>>

SpecProfiler == InitProfiler /\ [][NextProfiler]_vars

(***************************************************************************)
(***************************************************************************)
(* The concurrent importer under load: besides short inputs for every      *)
(* worker count and batch size, an input longer than the pipeline can      *)
(* hold, for one parse worker and batches of one row.                      *)
(***************************************************************************)
LongFile ==
    [open |-> TRUE, hdr |-> NumFields, lens |-> [k \in 1..MaxLongRecs |-> NumFields],
     term |-> "eof"]

InitBackpressure ==
    /\ mode = "go"
    /\ batchSize \in 1..MaxBatch
    /\ numWorkers \in 1..MaxWorkers
    /\ file \in Files(1) \cup (IF batchSize = 1 /\ numWorkers = 1 THEN {LongFile} ELSE {})
    /\ pc = "open"
    /\ crecord = <<>> /\ cresult = [row |-> <<>>, err |-> FALSE]
    /\ InitCommon

NextBackpressure == ImportFromFileGoRoutine

SpecBackpressure == InitBackpressure /\ [][NextBackpressure]_vars

(***************************************************************************)
(* The concurrent importer under fair scheduling: every goroutine that can *)
(* take its next step eventually takes it. A goroutine blocked on a send,  *)
(* a receive, a WaitGroup or the mutex has no step to take. Besides an     *)
(* input of one record for every worker count and batch size, inputs of    *)
(* MaxFairRecs records, and of one record less before a read failure, for  *)
(* one parse worker and batches of one row: both insert workers and the    *)
(* reader can fail in one run, with rows still queued behind them.         *)
(***************************************************************************)
MaxFairRecs == 3

FairFile(n, t) ==
    [open |-> TRUE, hdr |-> NumFields, lens |-> [k \in 1..n |-> NumFields], term |-> t]

ShortFiles == {FairFile(1, "eof"), FairFile(1, "err")}

FairFiles == {FairFile(MaxFairRecs, "eof"), FairFile(MaxFairRecs - 1, "err")}

InitFair ==
    /\ mode = "go"
    /\ batchSize \in 1..MaxBatch
    /\ numWorkers \in 1..MaxWorkers
    /\ file \in ShortFiles \cup (IF batchSize = 1 /\ numWorkers = 1 THEN FairFiles ELSE {})
    /\ pc = "open"
    /\ crecord = <<>> /\ cresult = [row |-> <<>>, err |-> FALSE]
    /\ InitCommon

NextFair == ImportFromFileGoRoutine

\* the steps of the calling goroutine, of the reader, of a parse worker and
\* of an insert worker
MainStep == GoOpen \/ GoReadHeader \/ GoSpawn \/ SelectError \/ SelectDone
ReaderStep == ReaderRead \/ ReaderSend \/ ReaderSendErr
ParserStep(p) == p \in Parsers /\ (ParserRecv(p) \/ ParserSend(p) \/ ParserFlush(p))
WriterStep(w) ==
    WriterRecv(w) \/ WriterExec(w) \/ WriterSendErr(w) \/ WriterLock(w) \/ WriterStore(w)

FairScheduling ==
    /\ WF_vars(MainStep)
    /\ WF_vars(ReaderStep)
    /\ \A p \in 1..MaxWorkers : WF_vars(ParserStep(p))
    /\ WF_vars(CloseBatchChan)
    /\ \A w \in 1..insertWorkers : WF_vars(WriterStep(w))
    /\ WF_vars(WaitInsert)

SpecFair == InitFair /\ [][NextFair]_vars /\ FairScheduling

(***************************************************************************)
(* The concurrent importer called with numWorkers = 0, which the code does *)
(* not reject: no parse worker is spawned, batchChan and errorChan are     *)
(* unbuffered. A send on an unbuffered channel completes only together     *)
(* with a receive: the reader's errorChan <- err meets the final select.   *)
(* No insert worker reaches its send, as no batch is ever queued.          *)
(***************************************************************************)
\* select, case err := <-errorChan, meeting the reader's errorChan <- err;
\* the reader returns, then the deferred close(recordChan)
SelectErrorUnbuffered ==
    /\ mode = "go" /\ pc = "select"
    /\ numWorkers = 0
    /\ rpc = "senderr"
    /\ rpc' = "done"
    /\ recordClosed' = TRUE
    /\ Return(totalRecords, "read")
    /\ atReturn' = Snapshot
    /\ UNCHANGED <<cfgVars, totalRecords, readVars, batch, recordChan, batchChan, batchClosed,
                   errorChan, rrec, parserVars, cpc, writerVars, dpc, storeVars, codecVars,
                   profVars, bufVars>>

InitZero ==
    /\ mode = "go"
    /\ batchSize \in 1..MaxBatch
    /\ numWorkers \in 0..1
    /\ file \in Files(1)
    /\ pc = "open"
    /\ crecord = <<>> /\ cresult = [row |-> <<>>, err |-> FALSE]
    /\ InitCommon

NextZero == ImportFromFileGoRoutine \/ SelectErrorUnbuffered

SpecZero == InitZero /\ [][NextZero]_vars

(***************************************************************************)
(* Vocabulary of the properties.                                           *)
(***************************************************************************)
Returned == pc = "returned"

\* the file opens and its header is read
FileReadable == file.open /\ file.hdr # 0

\* K: the data records of the file, and those of 28 fields
NumRecords == Len(file.lens)

ValidRecords == {k \in 1..NumRecords : file.lens[k] = NumFields}

AllValid == \A k \in 1..NumRecords : file.lens[k] = NumFields

\* the row_id value of the row decoded from the k-th record
KeyOf(k) == [t |-> "string", v |-> <<DigitChars[k + 1]>>]

BatchSizes(log) == [i \in 1..Len(log) |-> Len(log[i].keys)]

OkSizes(log) == [i \in 1..Len(log) |-> IF log[i].ok THEN Len(log[i].keys) ELSE 0]

\* rows persisted by the calls of log
Persisted(log) == SumSeq(OkSizes(log))

WrittenKeys(log) == Concat([i \in 1..Len(log) |-> log[i].keys])

WriteFailed == \E i \in 1..Len(execLog) : ~execLog[i].ok

LogAtReturn == SubSeq(execLog, 1, atReturn.execs)

\* C1: concurrent importer, K valid records, no read failure and no write
\* failure: the call returns (K, nil) and the batches passed to the store
\* hold K rows in all, whatever the worker count and the batch size.
C1_RowCountConservation ==
    (mode = "go" /\ Returned /\ FileReadable /\ AllValid /\ ~readFailed /\ ~WriteFailed)
        => /\ ret = [count |-> NumRecords, err |-> "nil"]
           /\ SumSeq(BatchSizes(execLog)) = NumRecords

C1_Witness ==
    /\ mode = "go" /\ Returned /\ AllValid /\ ~readFailed /\ ~WriteFailed
    /\ NumRecords = 2 /\ batchSize = 1 /\ numWorkers = 2
    /\ ret = [count |-> 2, err |-> "nil"]
    /\ Len(execLog) = 2

\* C2: sequential importer, valid records, no read or write failure: the
\* batches written so far hold min(batchSize, remaining) rows each and their
\* concatenation in write order is a prefix of the input order; at return it
\* is the whole input.
C2_SequentialOrder ==
    (mode = "seq" /\ FileReadable /\ AllValid /\ file.hdr = NumFields /\ file.term = "eof"
       /\ ~WriteFailed)
        => /\ \A i \in 1..Len(execLog) :
                Len(execLog[i].keys) =
                    Min(batchSize, NumRecords - SumSeq(BatchSizes(SubSeq(execLog, 1, i - 1))))
           /\ WrittenKeys(execLog) =
                [k \in 1..SumSeq(BatchSizes(execLog)) |-> KeyOf(k)]
           /\ Returned => WrittenKeys(execLog) = [k \in 1..NumRecords |-> KeyOf(k)]

C2_Witness ==
    /\ mode = "seq" /\ Returned /\ AllValid /\ ~WriteFailed /\ ret.err = "nil"
    /\ NumRecords = 3 /\ batchSize = 2
    /\ BatchSizes(execLog) = <<2, 1>>
    /\ WrittenKeys(execLog) = <<KeyOf(1), KeyOf(2), KeyOf(3)>>

\* C5: header-only input: both importers return (0, nil) and pass no batch
\* to the store.
C5_HeaderOnly ==
    (mode \in {"seq", "go"} /\ FileReadable /\ NumRecords = 0 /\ file.term = "eof")
        => /\ execLog = <<>>
           /\ Returned => ret = [count |-> 0, err |-> "nil"]

C5_Witness ==
    /\ mode = "go" /\ FileReadable /\ NumRecords = 0 /\ file.term = "eof"
    /\ numWorkers = 2
    /\ Returned /\ ret = [count |-> 0, err |-> "nil"]
    /\ dpc = "done" /\ batchClosed

\* C9: parseRow on a record of 28 fields returns 28 values and a boolean,
\* never nil, at position 17; on any other field count it returns an error
\* and no row.
C9_RowCodecShape ==
    (mode = "codec" /\ Returned)
        => IF Len(crecord) = 28
           THEN /\ ~cresult.err
                /\ Len(cresult.row) = 28
                /\ cresult.row[18] # Nil
                /\ cresult.row[18].t = "bool"
                /\ cresult.row[18].v \in BOOLEAN
           ELSE /\ cresult.err
                /\ cresult.row = <<>>

C9_Witness ==
    /\ mode = "codec" /\ Returned
    /\ Len(crecord) = 28 /\ crecord[18] = <<>>
    /\ cresult.row[18] = [t |-> "bool", v |-> FALSE]

\* C3: concurrent importer: when a store write has failed before the call
\* returns, the call returns a non-nil error and a count below the number
\* of valid records.
C3_WriteFailurePropagates ==
    (mode = "go" /\ Returned /\ \E i \in 1..atReturn.execs : ~execLog[i].ok)
        => /\ ret.err # "nil"
           /\ ret.count < Cardinality(ValidRecords)

\* C4: in both importers a failed read of a data record makes the call
\* return a non-nil error, with the count of rows written so far.
C4_ReadFailureFatal ==
    (mode \in {"seq", "go"} /\ Returned /\ atReturn.readFailed)
        => /\ ret.err # "nil"
           /\ ret.count <= Persisted(LogAtReturn)

\* C6: in both importers a record whose field count is not 28 is dropped
\* and the import goes on: with a readable input that ends in end-of-input
\* and no write failure, the call returns nil and the number of 28-field
\* records, and exactly those records are written.
C6_MalformedSkipped ==
    (mode \in {"seq", "go"} /\ Returned /\ FileReadable /\ file.hdr = NumFields
       /\ file.term = "eof" /\ ~WriteFailed)
        => /\ ret = [count |-> Cardinality(ValidRecords), err |-> "nil"]
           /\ {WrittenKeys(execLog)[n] : n \in 1..Len(WrittenKeys(execLog))}
                = {KeyOf(k) : k \in ValidRecords}

\* C7: sequential importer: once a batch write has failed the call has
\* returned a non-nil error and the rows of the batches written before it,
\* the failed call is the last one, and nothing is read or written after it.
C7_SeqWriteFailureAbsorbing ==
    /\ [](mode = "seq" /\ WriteFailed
            => /\ Returned
               /\ ret = [count |-> Persisted(execLog), err |-> "write"]
               /\ \A i \in 1..Len(execLog) : execLog[i].ok <=> i < Len(execLog)
               /\ SumSeq(BatchSizes(execLog)) = ret.count + Len(execLog[Len(execLog)].keys)
               /\ atReturn.execs = Len(execLog))
    /\ [][(mode = "seq" /\ WriteFailed) => UNCHANGED <<pos, execLog, ret, pc>>]_vars

C7_Witness ==
    /\ mode = "seq" /\ WriteFailed /\ Returned
    /\ batchSize = 1 /\ Len(execLog) = 2
    /\ ret = [count |-> 1, err |-> "write"]
    /\ pos = 2 /\ NumRecords = 3

\* C8: concurrent importer: the returned count is the total size of some of
\* the batches written successfully before the return; it never exceeds the
\* rows persisted at the return and equals them on a nil error.
C8_ReturnedCount ==
    (mode = "go" /\ Returned)
        => /\ ret.count <= Persisted(LogAtReturn)
           /\ ret.err = "nil" => ret.count = Persisted(LogAtReturn)
           /\ \E S \in SUBSET {i \in 1..atReturn.execs : execLog[i].ok} :
                ret.count = SumSeq([i \in 1..atReturn.execs |->
                                      IF i \in S THEN Len(execLog[i].keys) ELSE 0])

C8_Witness ==
    /\ mode = "go" /\ Returned
    /\ ret.err = "write"
    /\ ret.count < Persisted(LogAtReturn)
    /\ WriteFailed

\* the batches that the next step of a goroutine hands to executeBatch
Executing ==
    {wbatch[w] : w \in {v \in Writers : wpc[v] = "exec"}}
        \cup (IF mode = "seq" /\ pc \in {"flush", "final"} /\ batch # <<>> THEN {batch} ELSE {})

\* C10: for a batch of R >= 1 rows executeBatch passes R*28 parameters, the
\* value of row i, field j under placeholder i*28+j+1; it makes one
\* pool.Exec call, with the rows of that batch in order, and no row is
\* passed to the store twice, whether its batch was stored or rejected.
C10_BatchBinding ==
    /\ [](\A b \in Executing :
            LET R == Len(b)
                call == executeBatch(b)
            IN  /\ R >= 1
                /\ Len(call.values) = R * 28
                /\ Len(call.placeholders) = R
                /\ \A i \in 0..(R - 1) : \A j \in 0..27 :
                     /\ call.placeholders[i + 1][j + 1] = i * 28 + j + 1
                     /\ call.values[i * 28 + j + 1] = b[i + 1][j + 1])
    /\ [](\A m, n \in 1..Len(WrittenKeys(execLog)) :
            WrittenKeys(execLog)[m] = WrittenKeys(execLog)[n] => m = n)
    /\ [][execLog' # execLog =>
            /\ Len(execLog') = Len(execLog) + 1
            /\ SubSeq(execLog', 1, Len(execLog)) = execLog
            /\ \E b \in Executing :
                 /\ execLog'[Len(execLog')].n = Len(b) * 28
                 /\ execLog'[Len(execLog')].keys = [i \in 1..Len(b) |-> b[i][27]]]_vars

C10_Witness ==
    /\ mode = "go" /\ Returned
    /\ execLog = <<[keys |-> <<KeyOf(1), KeyOf(2)>>, n |-> 56, ok |-> FALSE]>>
    /\ \A w \in Writers : wpc[w] = "done"

\* a step that makes a Profiler call op
Calls(op) == pcall'.n # pcall.n /\ pcall'.op = op

\* C11: End on a name with a start in flight records now - start under the
\* name, removes the in-flight marker, returns that duration and touches no
\* other name; End on a name with no start in flight (already ended, or
\* cleared by Reset) returns zero and changes neither the recorded
\* durations nor the in-flight markers.
C11_ProfilerEnd ==
    /\ [][Calls("End") =>
            LET name == pcall'.name IN
            IF name \in DOMAIN startTimes
            THEN /\ pcall'.ret = now - startTimes[name]
                 /\ DOMAIN operations' = DOMAIN operations \cup {name}
                 /\ operations'[name] = pcall'.ret
                 /\ \A o \in DOMAIN operations \ {name} : operations'[o] = operations[o]
                 /\ DOMAIN startTimes' = DOMAIN startTimes \ {name}
                 /\ \A o \in DOMAIN startTimes' : startTimes'[o] = startTimes[o]
            ELSE /\ pcall'.ret = 0
                 /\ UNCHANGED <<operations, startTimes>>]_vars
    /\ [](pcall.op = "End" =>
            /\ pcall.name \notin DOMAIN startTimes
            /\ pcall.inflight => GetDuration(pcall.name) = pcall.ret
            /\ ~pcall.inflight => pcall.ret = 0)
    /\ [][Calls("Reset") => operations' = EmptyMap /\ startTimes' = EmptyMap]_vars

C11_Witness ==
    /\ mode = "profiler"
    /\ pcall = [n |-> 3, op |-> "End", name |-> "query", inflight |-> FALSE, ret |-> 0]
    /\ handles = {"query"} /\ started = [k \in {"query"} |-> 0] /\ now = 2
    /\ operations = EmptyMap

\* C12: Start on a name sets its in-flight start instant to the current
\* instant, replacing one already there, and changes no recorded duration
\* and no other marker; the marker of a name is the instant of its most
\* recent Start, and End on a name in flight returns the time since that
\* most recent Start.
C12_ProfilerStartOverwrite ==
    /\ [][Calls("Start") =>
            LET name == pcall'.name IN
            /\ DOMAIN startTimes' = DOMAIN startTimes \cup {name}
            /\ startTimes'[name] = now
            /\ \A o \in DOMAIN startTimes \ {name} : startTimes'[o] = startTimes[o]
            /\ operations' = operations]_vars
    /\ [][(Calls("End") /\ pcall'.inflight) =>
            pcall'.ret = now - started[pcall'.name]]_vars
    /\ [](\A name \in DOMAIN startTimes : startTimes[name] = started[name])

C12_Witness ==
    /\ mode = "profiler"
    /\ pcall = [n |-> 2, op |-> "Start", name |-> "query", inflight |-> TRUE, ret |-> 0]
    /\ now = 1
    /\ startTimes = [k \in {"query"} |-> 1]
    /\ operations = EmptyMap

\* C13: the batch queue is closed only when every parse worker has
\* terminated, its final partial-batch send included: nothing is sent on
\* it after the close, and an insert worker that sees the end of the queue
\* does so when no parse worker has a batch left to send.
C13_JoinThenClose ==
    /\ [](batchClosed => \A p \in Parsers : ppc[p] = "done" /\ pbatch[p] = <<>>)
    /\ [][batchClosed => Len(batchChan') <= Len(batchChan)]_vars
    /\ [][\A w \in Writers :
            (wpc[w] = "recv" /\ wpc'[w] = "done")
                => /\ batchChan = <<>>
                   /\ \A p \in Parsers : ppc[p] = "done" /\ pbatch[p] = <<>>]_vars

C13_Witness ==
    /\ mode = "go" /\ numWorkers = 2
    /\ batchClosed
    /\ wpc[1] = "done" /\ wpc[2] = "exec"
    /\ Len(execLog) = 1 /\ execLog[1].ok

\* C14: the done signal is offered only when both insert workers have
\* terminated, and when the importer returns through the done signal the
\* batch queue is closed and empty.
C14_CompletionSignalling ==
    /\ [](dpc \in {"send", "done"} => \A w \in Writers : wpc[w] = "done")
    /\ [][(pc = "select" /\ pc' = "returned" /\ dpc = "send" /\ dpc' = "done")
            => batchClosed /\ batchChan = <<>>]_vars

\* C15: when the reader goroutine has terminated on a read failure it has
\* reported the failure on the error queue and it has not closed the
\* record queue, the signal that the end-of-input path gives to the parse
\* workers.
C15_ReaderFailureNotCompletion ==
    (mode = "go" /\ readFailed /\ rpc = "done")
        => /\ ret.err = "read" \/ \E i \in 1..Len(errorChan) : errorChan[i] = "read"
           /\ ~recordClosed

\* the row_id values of a batch, in order
RowKeys(b) == [i \in 1..Len(b) |-> b[i][RowIdColumn + 1]]

\* the row_id of every row that has been sent on the batch queue: the rows
\* passed to the store, those in the queue and those that an insert worker
\* has received and not yet passed on
PlacedKeys ==
    WrittenKeys(execLog)
        \o Concat([i \in 1..Len(batchChan) |-> RowKeys(batchChan[i])])
        \o Concat([w \in 1..insertWorkers |->
                     IF wpc[w] = "exec" THEN RowKeys(wbatch[w]) ELSE <<>>])

Count(s, x) == Cardinality({i \in 1..Len(s) : s[i] = x})

\* the records read that parseRow decodes
Decoded == IF file.hdr = NumFields THEN 1..pos ELSE {}

\* C16: the reader that reaches the end of the input has read every record
\* and closed the record queue; a parse worker terminates only when that
\* queue is closed and empty and its private batch has been sent; no empty
\* batch is ever sent; so once the parse workers have terminated every
\* decoded row has been placed on the batch queue exactly once.
C16_EndOfInputDrain ==
    /\ (mode = "go" /\ rpc = "done" /\ ~readFailed)
          => recordClosed /\ pos = NumRecords
    /\ \A i \in 1..Len(batchChan) : Len(batchChan[i]) >= 1
    /\ mode = "go" =>
         \A p \in Parsers :
            ppc[p] = "done" => pbatch[p] = <<>> /\ recordClosed /\ recordChan = <<>>
    /\ (mode = "go" /\ rpc = "done" /\ ~readFailed /\ \A p \in Parsers : ppc[p] = "done")
          => /\ Len(PlacedKeys) = Cardinality(Decoded)
             /\ \A k \in Decoded : Count(PlacedKeys, KeyOf(k)) = 1

C16_Witness ==
    /\ mode = "go" /\ rpc = "done" /\ ~readFailed
    /\ numWorkers = 2 /\ batchSize = 2
    /\ \A p \in Parsers : ppc[p] = "done"
    /\ Len(batchChan) = 2 /\ Len(batchChan[1]) = 1 /\ Len(batchChan[2]) = 1
    /\ PlacedKeys = <<KeyOf(2), KeyOf(1)>>

\* the sizes of the batches sent on the batch queue and not yet passed to
\* the store
PendingSizes ==
    [i \in 1..Len(batchChan) |-> Len(batchChan[i])]
        \o Concat([w \in 1..insertWorkers |->
                     IF wpc[w] = "exec" THEN <<Len(wbatch[w])>> ELSE <<>>])

ShortIn(sizes) == {i \in 1..Len(sizes) : sizes[i] < batchSize}

\* C17: every batch passed to the store holds between 1 and batchSize
\* rows; a batch of fewer than batchSize rows is a producer's last batch:
\* in the sequential importer it is the last write before the return, in
\* the concurrent importer there are no more short batches than parse
\* workers that have terminated, hence at most numWorkers.
C17_BatchSize ==
    /\ \A i \in 1..Len(execLog) :
         1 <= Len(execLog[i].keys) /\ Len(execLog[i].keys) <= batchSize
    /\ mode = "seq" =>
         /\ Cardinality(ShortIn(BatchSizes(execLog))) <= 1
         /\ \A i \in ShortIn(BatchSizes(execLog)) : i = Len(execLog) /\ Returned
    /\ mode = "go" =>
         /\ \A i \in 1..Len(PendingSizes) :
              1 <= PendingSizes[i] /\ PendingSizes[i] <= batchSize
         /\ Cardinality(ShortIn(BatchSizes(execLog))) + Cardinality(ShortIn(PendingSizes))
              <= Cardinality({p \in Parsers : ppc[p] = "done"})
         /\ Cardinality(ShortIn(BatchSizes(execLog))) <= numWorkers

C17_Witness ==
    /\ mode = "go" /\ numWorkers = 2 /\ batchSize = 2
    /\ BatchSizes(execLog) = <<1, 1>>
    /\ \A w \in Writers : wpc[w] = "done"

\* the rows of the batches that an insert worker has written and not yet
\* added to totalRecords
Untallied ==
    SumSeq([w \in 1..insertWorkers |->
              IF wpc[w] \in {"lock", "store"} THEN Len(wbatch[w]) ELSE 0])

\* C18: an insert worker whose write failed goes on to report the failure
\* and to terminate: it takes no further batch and its failed batch is
\* never added to totalRecords, which only ever counts successfully
\* written batches; a terminated worker stays terminated; a step of one
\* insert worker changes neither the position nor the batch of the other,
\* which goes on consuming.
C18_WriterStopsOnFailure ==
    /\ [](mode = "go" => totalRecords + Untallied = Persisted(execLog))
    /\ [][\A w \in Writers :
            /\ (wpc[w] = "exec" /\ wpc'[w] # "exec")
                  => /\ Len(execLog') = Len(execLog) + 1
                     /\ wpc'[w] = (IF execLog'[Len(execLog')].ok THEN "lock" ELSE "senderr")
            /\ wpc[w] = "senderr"
                  => /\ wpc'[w] \in {"senderr", "done"}
                     /\ totalRecords' = totalRecords \/ wpc'[w] = "senderr"
                     /\ wpc'[w] = "done" => errorChan' = Append(errorChan, "write")
            /\ wpc[w] = "done" => wpc'[w] = "done"
            /\ (wpc[w] # "idle" /\ wpc'[w] # wpc[w])
                  => \A v \in Writers \ {w} : wpc'[v] = wpc[v] /\ wbatch'[v] = wbatch[v]]_vars

C18_Witness ==
    /\ mode = "go"
    /\ \A w \in Writers : wpc[w] = "done"
    /\ Len(execLog) = 2 /\ ~execLog[1].ok /\ execLog[2].ok
    /\ totalRecords = 1 /\ batchSize = 1

\* C19: at most one insert worker is between the Lock and the Unlock
\* around totalRecords += len(batch), and it is the holder of recordMutex;
\* its update adds the batch size to the value the counter has at that
\* moment, so no update is lost; once both insert workers have terminated
\* the counter is the total size of the successfully written batches.
C19_CounterMutex ==
    /\ [](Cardinality({w \in Writers : wpc[w] = "store"}) <= 1)
    /\ [](\A w \in Writers : wpc[w] = "store" <=> recordMutex = w)
    /\ [][\A w \in Writers :
            (wpc[w] = "store" /\ wpc'[w] # "store")
                => totalRecords' = totalRecords + Len(wbatch[w])]_vars
    /\ []((mode = "go" /\ \A w \in Writers : wpc[w] = "done")
            => totalRecords = Persisted(execLog))

C19_Witness ==
    /\ mode = "go"
    /\ recordMutex = 1 /\ wpc[1] = "store" /\ wpc[2] = "lock"
    /\ totalRecords = 0
    /\ Len(execLog) = 2

\* the rows that the insert workers have received from the batch queue
Received ==
    Len(WrittenKeys(execLog))
        + SumSeq([w \in 1..insertWorkers |-> IF wpc[w] = "exec" THEN Len(wbatch[w]) ELSE 0])

\* what the reader, the record queue, the parse workers and the batch
\* queue can hold
PipelineCapacity == 1 + 2 * batchSize + numWorkers * batchSize + numWorkers * batchSize

\* C20: the record queue never holds more than 2*batchSize records and the
\* batch queue never more than numWorkers batches; while the record queue
\* is full nothing is added to it, and the reader holding a record reads no
\* further one; while the batch queue is full nothing is added to it and a
\* parse worker with a batch to send stays where it is; so the records
\* read and not yet received by an insert worker are at most
\* 1 + 2*batchSize + 2*numWorkers*batchSize, and those not yet passed to
\* the store at most insertWorkers*batchSize more, whatever the length of
\* the input.
C20_Backpressure ==
    /\ [](Len(recordChan) <= 2 * batchSize /\ Len(batchChan) <= numWorkers)
    /\ [][/\ Len(recordChan) = 2 * batchSize => Len(recordChan') <= Len(recordChan)
          /\ rpc = "send" => pos' = pos]_vars
    /\ [][Len(batchChan) = numWorkers =>
            /\ Len(batchChan') <= Len(batchChan)
            /\ \A p \in Parsers :
                 ppc[p] \in {"send", "flush"} => ppc'[p] = ppc[p] /\ pbatch'[p] = pbatch[p]]_vars
    /\ []((mode = "go" /\ file.hdr = NumFields) =>
            /\ pos - Received <= PipelineCapacity
            /\ pos - Len(WrittenKeys(execLog)) <= PipelineCapacity + insertWorkers * batchSize)

C20_Witness ==
    /\ mode = "go" /\ file = LongFile
    /\ execLog = <<>>
    /\ pos = PipelineCapacity + insertWorkers * batchSize
    /\ rpc = "send"
    /\ Len(recordChan) = 2 * batchSize /\ Len(batchChan) = numWorkers
    /\ \A p \in Parsers : ppc[p] = "send"
    /\ \A w \in Writers : wpc[w] = "exec"

\* C21: in ImportFromFile the accumulating batch never holds more than
\* batchSize rows, and fewer while the next record is to be read; at most
\* one batch is being written, a step makes at most one pool.Exec call,
\* and while a batch is being written no record is read.
C21_SeqResourceBound ==
    /\ [](mode = "seq" =>
            /\ Len(batch) <= batchSize
            /\ pc = "read" => Len(batch) < batchSize
            /\ pc = "flush" => Len(batch) = batchSize
            /\ Cardinality(Executing) <= 1)
    /\ [][mode = "seq" =>
            /\ Len(execLog') <= Len(execLog) + 1
            /\ pc \in {"flush", "final"} => pos' = pos
            /\ pos' # pos => execLog' = execLog]_vars

C21_Witness ==
    /\ mode = "seq" /\ pc = "flush"
    /\ batchSize = 2 /\ Len(batch) = 2
    /\ pos = 2 /\ NumRecords = 3
    /\ execLog = <<>>

\* the insert workers inside imp.executeBatch
InFlightWrites == {w \in DOMAIN wpc : wpc[w] = "exec"}

\* C22: the concurrent importer has exactly 2 insert workers whatever
\* numWorkers is, so at most 2 store writes of one call are in flight at
\* any time, and a step starts or ends at most one of them.
C22_BoundedStoreConcurrency ==
    /\ [](mode = "go" =>
            /\ DOMAIN wpc = 1..2
            /\ Cardinality(InFlightWrites) <= 2)
    /\ [][mode = "go" =>
            /\ Len(execLog') <= Len(execLog) + 1
            /\ pc # "spawn" =>
                 Cardinality({w \in DOMAIN wpc : wpc'[w] # wpc[w]}) <= 1]_vars

C22_Witness ==
    /\ mode = "go" /\ numWorkers = 1
    /\ InFlightWrites = {1, 2}
    /\ execLog = <<>>

\* C23: the return of ImportFromFileGoRoutine with an error changes the
\* position of no worker and closes no queue, and after it an insert
\* worker that holds a batch can still write it and one that waits on a
\* non-empty batch queue can still receive: rows can be persisted after
\* the caller has its result.
C23_NoStopSignal ==
    /\ [][(mode = "go" /\ pc = "select" /\ pc' = "returned" /\ ret'.err # "nil")
            => UNCHANGED <<rpc, rrec, ppc, pbatch, cpc, wpc, wbatch, dpc,
                           recordChan, recordClosed, batchChan, batchClosed>>]_vars
    /\ []((mode = "go" /\ Returned /\ ret.err # "nil") =>
            \A w \in Writers :
               /\ wpc[w] = "exec" => ENABLED WriterExec(w)
               /\ (wpc[w] = "recv" /\ batchChan # <<>>) => ENABLED WriterRecv(w))

C23_Witness ==
    /\ mode = "go" /\ Returned /\ ret.err = "write"
    /\ atReturn.execs = 1 /\ Len(execLog) = 2
    /\ Persisted(LogAtReturn) = 0 /\ Persisted(execLog) = 1

C25_AlwaysReturns == <>Returned

\* the call has returned a write failure after both insert workers failed,
\* with a batch left in the batch queue that no one will take
C25_Witness ==
    /\ mode = "go" /\ Returned /\ ret.err = "write"
    /\ \A w \in Writers : wpc[w] = "done"
    /\ Len(execLog) = 2 /\ Persisted(execLog) = 0
    /\ batchChan # <<>>

\* every goroutine that the call has spawned has run to its end
AllWorkersDone ==
    /\ rpc = "done"
    /\ \A p \in Parsers : ppc[p] = "done"
    /\ cpc = "done"
    /\ \A w \in Writers : wpc[w] = "done"
    /\ dpc = "done"

\* C26: in every fairly scheduled run of the concurrent importer, every
\* goroutine it has spawned (reader, parse workers, closer, insert workers,
\* done waiter) eventually terminates, also when insert workers fail.
C26_NoWorkerBlockedForever == (mode = "go" /\ pc = "select") ~> AllWorkersDone

\* the row_id of a record as parseRow will decode it
RawKey(record) == [t |-> "string", v |-> record[RowIdColumn + 1]]

\* the row_id of every record that is somewhere in the pipeline: in the
\* reader's hands, in the record queue, in a parse worker's private batch,
\* in the batch queue, with an insert worker before its write, or written
PipelineKeys ==
    (IF rpc = "send" THEN <<RawKey(rrec)>> ELSE <<>>)
        \o [i \in 1..Len(recordChan) |-> RawKey(recordChan[i])]
        \o Concat([p \in 1..numWorkers |-> RowKeys(pbatch[p])])
        \o PlacedKeys

\* C27: in the concurrent importer a record read from the file is in at
\* most one place of the pipeline: with one parse worker, in one batch, with
\* one insert worker, in one store call; a store call passes exactly the
\* batch that one insert worker holds, once; no record is passed to the
\* store twice, whether writes fail or not.
C27_AtMostOnceWrite ==
    /\ [](mode = "go" =>
            /\ \A k \in 1..NumRecords : Count(PipelineKeys, KeyOf(k)) <= 1
            /\ \A i \in 1..Len(PipelineKeys) :
                 \E k \in 1..pos : PipelineKeys[i] = KeyOf(k))
    /\ [][(mode = "go" /\ execLog' # execLog) =>
            \E w \in Writers :
               /\ wpc[w] = "exec" /\ wpc'[w] # "exec"
               /\ Len(execLog') = Len(execLog) + 1
               /\ SubSeq(execLog', 1, Len(execLog)) = execLog
               /\ execLog'[Len(execLog')].keys = RowKeys(wbatch[w])]_vars

\* two records have gone through two parse workers and two insert workers;
\* the first write failed, and each record was passed to the store once
C27_Witness ==
    /\ mode = "go" /\ numWorkers = 2 /\ batchSize = 1
    /\ Len(execLog) = 2 /\ ~execLog[1].ok /\ execLog[2].ok
    /\ Count(WrittenKeys(execLog), KeyOf(1)) = 1
    /\ Count(WrittenKeys(execLog), KeyOf(2)) = 1

\* the insert workers that have a written batch to add to totalRecords:
\* about to lock the mutex, or holding it between the load and the store
Tallying == {w \in DOMAIN wpc : wpc[w] \in {"lock", "store"}}

\* C28: every access to totalRecords is made under recordMutex or after
\* both insert workers have terminated: an insert worker updates it holding
\* the mutex, and the return of ImportFromFileGoRoutine reads it in no state
\* in which an insert worker is updating it or about to.
C28_RaceFreeCounter ==
    /\ [](mode = "go" => \A w \in Writers : wpc[w] = "store" => recordMutex = w)
    /\ [][(mode = "go" /\ pc = "select" /\ pc' = "returned") => Tallying = {}]_vars

\* C29: the input file is closed when ImportFromFileGoRoutine returns, and
\* the reader goroutine makes no reader.Read call once the call has
\* returned and closed it.
C29_NoFileAccessAfterReturn ==
    /\ []((mode = "go" /\ Returned /\ file.open) => fileClosed)
    /\ [][(mode = "go" /\ fileClosed /\ rpc = "read") => rpc' = "read"]_vars

\* the row_id of the rows that the store had accepted when the call returned
PersistedKeys ==
    Concat([i \in 1..atReturn.execs |-> IF execLog[i].ok THEN execLog[i].keys ELSE <<>>])

\* C30: for every numWorkers, 0 included, a call of ImportFromFileGoRoutine
\* that returns a nil error returns the number of valid data records of the
\* file, and every one of them has been written.
C30_SuccessMeansComplete ==
    (mode = "go" /\ Returned /\ ret.err = "nil")
        => /\ ret.count = Cardinality(ValidRecords)
           /\ \A k \in ValidRecords : Count(PersistedKeys, KeyOf(k)) = 1

\* C31: with one parse worker or more, a goroutine that has a failure to
\* report completes its send on the error queue in every fairly scheduled
\* run: the failing reader goes on to close the record queue and a failing
\* insert worker goes on to terminate.
C31_FailureReportNeverBlocks ==
    /\ (mode = "go" /\ rpc = "senderr") ~> (rpc = "done" /\ recordClosed)
    /\ \A w \in 1..insertWorkers :
         (mode = "go" /\ wpc[w] = "senderr") ~> (wpc[w] = "done")

====
